---- MODULE Spec2Model ----
(***************************************************************************)
(* LiteVecDB (src/litevecdb/core.py): a sharded on-disk vector store.      *)
(* One handle works on one directory.  The directory holds one compressed  *)
(* pickle per shard and index.json; the handle holds shard_index.          *)
(***************************************************************************)
EXTENDS Integers, Sequences, FiniteSets, TLC

(***************************************************************************)
(* Bounds of the exploration.                                              *)
(***************************************************************************)
MaxEntries == 3      \* entries stored at one time
MaxLastShard == 2    \* add is not explored once last_shard reached this
MaxTime == 1         \* the clock runs 0..MaxTime
MaxK == 2            \* search is explored with k in 0..MaxK

(***************************************************************************)
(* Python values.  Metadata values, filter values and return values are    *)
(* tagged so that values of different Python types can be compared.        *)
(***************************************************************************)
None == <<"None">>
PyStr(s) == <<"str", s>>
PyNum(n) == <<"num", n>>
NaN == <<"nan">>

\* dict.get(key): the value, or None when the key is absent
Get(d, key) == IF key \in DOMAIN d THEN d[key] ELSE None

\* the key counts[shard_id] would use
Str_IntKey(i) == <<"int", i>>

\* keys of the counts dict: str(shard_id) is <<"str", shard_id>>, the int
\* shard_id would be <<"int", shard_id>>.  json.dump writes every key as a
\* string, so that is what json.load gives back.
Str(i) == <<"str", i>>
JsonKey(k) == <<"str", k[2]>>

(***************************************************************************)
(* Configuration given to __init__.                                        *)
(***************************************************************************)
dim == 2
\* byte thresholds max_shard_size_mb * 1024 * 1024 explored (the argument
\* may be fractional, so any number of bytes can be the threshold)
ShardSizes == {5, 9, 13}

(***************************************************************************)
(* Inputs.                                                                 *)
(***************************************************************************)
AddInputs ==
  { [vector |-> <<1, 0>>, meta |-> [loc |-> PyStr("X")]],
    [vector |-> <<0, 1>>, meta |-> [text |-> PyStr("a"), expires_at |-> PyNum(1)]],
    [vector |-> <<0, 0>>, meta |-> [loc |-> PyStr("Y")]] }

BadInputs ==
  { [vector |-> <<1>>, meta |-> [loc |-> PyStr("X")]],
    [vector |-> <<1, 0, 0>>, meta |-> [loc |-> PyStr("Y")]] }

Queries == { <<1, 0>>, <<1, 1>> }

\* filters=None and filters={} are both falsy; both are the empty map here
NoFilters == <<>>
Filters ==
  { NoFilters,
    [loc |-> PyStr("X")],
    [loc |-> None],
    [loc |-> PyStr("X"), expires_at |-> None] }

Metrics == {"cosine", "l2"}

(***************************************************************************)
(* State.                                                                  *)
(***************************************************************************)
\* self.max_shard_size
VARIABLE max_shard_size
\* self.shard_index: [last_shard, counts]
VARIABLE shard_index
\* the shard files: shard id -> [vectors, metadata]; the domain is the set of
\* ids whose file exists
VARIABLE shards
\* index.json: <<>> when absent, <<document>> when present
VARIABLE index_json
\* time.time()
VARIABLE now
\* what happened last: [op, args]
VARIABLE call
\* its outcome: [error, value, stdout]
VARIABLE ret
\* the calls running in threads on this handle: thread -> its call, the line
\* it has reached and its local variables
VARIABLE threads
\* the shard files the threads have read and written, in order:
\* [thread, event, shard_id, shard_data]
VARIABLE log

vars == <<max_shard_size, shard_index, shards, index_json, now, call, ret,
          threads, log>>

ZeroIndex == [last_shard |-> 0, counts |-> <<>>]
EmptyShard == [vectors |-> <<>>, metadata |-> <<>>]

Returned(v) == [error |-> "none", value |-> v, stdout |-> <<>>]
Raised(e) == [error |-> e, value |-> None, stdout |-> <<>>]

(***************************************************************************)
(* Helpers.                                                                *)
(***************************************************************************)
RECURSIVE SumSeq(_)
SumSeq(s) == IF s = <<>> THEN 0 ELSE Head(s) + SumSeq(Tail(s))

\* the sequence s without position i
RemoveAt(s, i) == [j \in 1..(Len(s) - 1) |-> IF j < i THEN s[j] ELSE s[j + 1]]

\* the subsequence of s at the positions satisfying keep, in order
RECURSIVE SelectIdx(_, _, _)
SelectIdx(s, keep, i) ==
  IF i > Len(s) THEN <<>>
  ELSE (IF keep[i] THEN <<s[i]>> ELSE <<>>) \o SelectIdx(s, keep, i + 1)

(***************************************************************************)
(* Files.                                                                  *)
(***************************************************************************)
\* _load_index
LoadIndex == IF index_json # <<>> THEN index_json[1] ELSE ZeroIndex

\* json.dump of the index followed by what json.load gives back
JsonDump(idx) ==
  [last_shard |-> idx.last_shard,
   counts |-> [k \in {JsonKey(j) : j \in DOMAIN idx.counts} |->
                 idx.counts[CHOOSE j \in DOMAIN idx.counts : JsonKey(j) = k]]]

\* _save_index: the file content after saving idx
SaveIndex(idx) == <<JsonDump(idx)>>

\* _load_shard
LoadShard(files, shard_id) ==
  IF shard_id \in DOMAIN files THEN files[shard_id] ELSE EmptyShard

\* _save_shard: the shard files after writing shard_data as shard shard_id
SaveShard(files, shard_id, shard_data) ==
  [s \in DOMAIN files \cup {shard_id} |->
     IF s = shard_id THEN shard_data ELSE files[s]]

\* size of the compressed pickle of a shard, in bytes (abstracted: a frame
\* header plus, per entry, its floats and its metadata items)
HeaderBytes == 1
EntryBytes(vector, meta) == Len(vector) + Cardinality(DOMAIN meta) + 1
FileSize(shard_data) ==
  HeaderBytes +
  SumSeq([i \in 1..Len(shard_data.vectors) |->
            EntryBytes(shard_data.vectors[i], shard_data.metadata[i])])

\* counts[key] = n
SetCount(counts, key, n) ==
  [k \in DOMAIN counts \cup {key} |-> IF k = key THEN n ELSE counts[k]]

(***************************************************************************)
(* search                                                                  *)
(***************************************************************************)
\* _match_filter
MatchFilter(meta, filters) ==
  \A key \in DOMAIN filters : ~(Get(meta, key) # filters[key])

Dot(u, v) == SumSeq([i \in 1..Len(u) |-> u[i] * v[i]])

RECURSIVE Gcd(_, _)
Gcd(a, b) == IF b = 0 THEN a ELSE Gcd(b, a % b)

Abs(a) == IF a < 0 THEN -a ELSE a

\* A score is kept exact: the cosine c is irrational in general, so the float
\* is represented by c * |c| as a reduced fraction <<"float", n, d>>, which
\* orders the scores as the floats are ordered.  x / 0 is nan.
Cosine(vec, query) ==
  LET a == Dot(vec, query)
      n == IF a < 0 THEN -(a * a) ELSE a * a
      d == Dot(vec, vec) * Dot(query, query)
      g == Gcd(Abs(n), d)
  IN IF d = 0 THEN NaN ELSE <<"float", n \div g, d \div g>>

\* _cosine_similarity: one score per row of vecs
CosineSimilarity(vecs, query) == [i \in 1..Len(vecs) |-> Cosine(vecs[i], query)]

IsNaN(x) == x = NaN

\* x < y on floats: False whenever one of them is nan
Less(x, y) == ~IsNaN(x) /\ ~IsNaN(y) /\ x[2] * y[3] < y[2] * x[3]

\* the order numpy sorts by: ascending, nan last
NpBefore(x, y) == ~IsNaN(x) /\ (IsNaN(y) \/ Less(x, y))

\* the permutations of 1..n
RECURSIVE Perms(_)
Perms(n) ==
  IF n = 0 THEN {<<>>}
  ELSE {[i \in 1..n |-> IF i < pos THEN p[i] ELSE IF i = pos THEN n ELSE p[i - 1]] :
          p \in Perms(n - 1), pos \in 1..n}

Reverse(s) == [i \in 1..Len(s) |-> s[Len(s) + 1 - i]]

Min(a, b) == IF a < b THEN a ELSE b

\* s[:k] for k >= 0
Take(s, k) == SubSeq(s, 1, Min(k, Len(s)))

\* sim.argsort(): the default sort is not stable, equal scores come out in
\* an order the build decides
Argsort(sim) ==
  {p \in Perms(Len(sim)) :
     \A i, j \in 1..Len(sim) : i < j => ~NpBefore(sim[p[j]], sim[p[i]])}

\* sim.argsort()[::-1][:k]
TopKIdx(sim, k) == {Take(Reverse(p), k) : p \in Argsort(sim)}

\* the positions of a shard that pass the filter, ascending
RECURSIVE FilteredIdx(_, _, _)
FilteredIdx(metadata, filters, i) ==
  IF i > Len(metadata) THEN <<>>
  ELSE (IF DOMAIN filters = {} \/ MatchFilter(metadata[i], filters)
        THEN <<i>> ELSE <<>>) \o FilteredIdx(metadata, filters, i + 1)

\* what one iteration of the loop over shards can append to all_results
ShardResults(files, shard_id, query, k, filters) ==
  LET shard_data == LoadShard(files, shard_id)
      filtered == FilteredIdx(shard_data.metadata, filters, 1)
      vecs_filtered == [i \in 1..Len(filtered) |-> shard_data.vectors[filtered[i]]]
      metas_filtered == [i \in 1..Len(filtered) |-> shard_data.metadata[filtered[i]]]
      sim == CosineSimilarity(vecs_filtered, query)
  IN IF Len(filtered) = 0 THEN {<<>>}
     ELSE {[j \in 1..Len(top_k_idx) |->
              <<sim[top_k_idx[j]], metas_filtered[top_k_idx[j]]>>] :
           top_k_idx \in TopKIdx(sim, k)}

\* the values all_results can have after shards shard_id .. last
RECURSIVE AllResultsFrom(_, _, _, _, _, _)
AllResultsFrom(files, shard_id, last, query, k, filters) ==
  IF shard_id > last THEN {<<>>}
  ELSE {a \o b : a \in ShardResults(files, shard_id, query, k, filters),
                 b \in AllResultsFrom(files, shard_id + 1, last, query, k, filters)}

\* all_results.sort(key=lambda x: x[0], reverse=True): a stable sort by
\* descending score.  Every comparison with nan is False, so with a nan score
\* in the list the order the sort leaves is not determined by the scores.
SortByScore(all_results) ==
  LET n == Len(all_results)
  IN {[i \in 1..n |-> all_results[p[i]]] : p \in
        {p \in Perms(n) :
           \/ \E i \in 1..n : IsNaN(all_results[i][1])
           \/ \A i, j \in 1..n : i < j =>
                \/ Less(all_results[p[j]][1], all_results[p[i]][1])
                \/ /\ all_results[p[j]][1] = all_results[p[i]][1]
                   /\ p[i] < p[j]}}

SearchResults(files, idx, query, k, filters) ==
  UNION {{Take(sorted, k) : sorted \in SortByScore(all_results)} :
         all_results \in AllResultsFrom(files, 0, idx.last_shard, query, k, filters)}

\* search without the test of the metric: every metric is ranked by cosine
Search_AnyMetric(query, k, metric, filters) ==
  /\ call' = [op |-> "search", args |-> <<query, k, metric, filters>>]
  /\ \E results \in SearchResults(shards, shard_index, query, k, filters) :
       ret' = Returned(results)
  /\ UNCHANGED <<max_shard_size, shard_index, shards, index_json, now>>

Search(query, k, metric, filters) ==
  /\ call' = [op |-> "search", args |-> <<query, k, metric, filters>>]
  /\ IF metric # "cosine"
     THEN ret' = Raised("ValueError")
     ELSE \E results \in SearchResults(shards, shard_index, query, k, filters) :
            ret' = Returned(results)
  /\ UNCHANGED <<max_shard_size, shard_index, shards, index_json, now>>

(***************************************************************************)
(* get_all                                                                 *)
(***************************************************************************)
ShardRows(files, shard_id) ==
  LET shard_data == LoadShard(files, shard_id)
  IN [i \in 1..Len(shard_data.vectors) |->
        [shard |-> shard_id, index |-> i - 1,
         vector |-> shard_data.vectors[i],
         metadata |-> shard_data.metadata[i]]]

\* rows of shards shard_id .. last, ascending
RECURSIVE RowsFrom(_, _, _)
RowsFrom(files, shard_id, last) ==
  IF shard_id > last THEN <<>>
  ELSE ShardRows(files, shard_id) \o RowsFrom(files, shard_id + 1, last)

GetAllRows(files, idx) == RowsFrom(files, 0, idx.last_shard)

GetAll ==
  /\ call' = [op |-> "get_all", args |-> <<>>]
  /\ ret' = Returned(GetAllRows(shards, shard_index))
  /\ UNCHANGED <<max_shard_size, shard_index, shards, index_json, now>>

(***************************************************************************)
(* add                                                                     *)
(***************************************************************************)
\* add that writes the index before it validates the vector
Add_SaveIndexFirst(vector, meta) ==
  LET shard_id == shard_index.last_shard
      shard_data == LoadShard(shards, shard_id)
      new_data == [vectors |-> Append(shard_data.vectors, vector),
                   metadata |-> Append(shard_data.metadata, meta)]
      new_last == IF FileSize(new_data) >= max_shard_size
                  THEN shard_id + 1 ELSE shard_index.last_shard
      new_index == [last_shard |-> new_last,
                    counts |-> SetCount(shard_index.counts, Str(shard_id),
                                        Len(new_data.vectors))]
  IN /\ call' = [op |-> "add", args |-> <<vector, meta>>]
     /\ IF Len(vector) # dim
        THEN /\ ret' = Raised("ValueError")
             /\ index_json' = SaveIndex(shard_index)
             /\ UNCHANGED <<shard_index, shards>>
        ELSE /\ shards' = SaveShard(shards, shard_id, new_data)
             /\ shard_index' = new_index
             /\ index_json' = SaveIndex(new_index)
             /\ ret' = Returned(None)
     /\ UNCHANGED <<max_shard_size, now>>

\* add that decides the rollover before the write, on the size of the file
\* it is about to extend
Add_RolloverBeforeWrite(vector, meta) ==
  LET open_id == shard_index.last_shard
      shard_id == IF FileSize(LoadShard(shards, open_id)) >= max_shard_size
                  THEN open_id + 1 ELSE open_id
      shard_data == LoadShard(shards, shard_id)
      new_data == [vectors |-> Append(shard_data.vectors, vector),
                   metadata |-> Append(shard_data.metadata, meta)]
      new_index == [last_shard |-> shard_id,
                    counts |-> SetCount(shard_index.counts, Str(shard_id),
                                        Len(new_data.vectors))]
  IN /\ call' = [op |-> "add", args |-> <<vector, meta>>]
     /\ IF Len(vector) # dim
        THEN /\ ret' = Raised("ValueError")
             /\ UNCHANGED <<shard_index, shards, index_json>>
        ELSE /\ shards' = SaveShard(shards, shard_id, new_data)
             /\ shard_index' = new_index
             /\ index_json' = SaveIndex(new_index)
             /\ ret' = Returned(None)
     /\ UNCHANGED <<max_shard_size, now>>

\* add that rolls over only when the file is larger than the threshold
Add_RolloverStrict(vector, meta) ==
  LET shard_id == shard_index.last_shard
      shard_data == LoadShard(shards, shard_id)
      new_data == [vectors |-> Append(shard_data.vectors, vector),
                   metadata |-> Append(shard_data.metadata, meta)]
      new_last == IF FileSize(new_data) > max_shard_size
                  THEN shard_id + 1 ELSE shard_index.last_shard
      new_index == [last_shard |-> new_last,
                    counts |-> SetCount(shard_index.counts, Str(shard_id),
                                        Len(new_data.vectors))]
  IN /\ call' = [op |-> "add", args |-> <<vector, meta>>]
     /\ IF Len(vector) # dim
        THEN /\ ret' = Raised("ValueError")
             /\ UNCHANGED <<shard_index, shards, index_json>>
        ELSE /\ shards' = SaveShard(shards, shard_id, new_data)
             /\ shard_index' = new_index
             /\ index_json' = SaveIndex(new_index)
             /\ ret' = Returned(None)
     /\ UNCHANGED <<max_shard_size, now>>

\* add that inserts the entry at the front of the open shard
Add_InsertFront(vector, meta) ==
  LET shard_id == shard_index.last_shard
      shard_data == LoadShard(shards, shard_id)
      new_data == [vectors |-> <<vector>> \o shard_data.vectors,
                   metadata |-> <<meta>> \o shard_data.metadata]
      new_last == IF FileSize(new_data) >= max_shard_size
                  THEN shard_id + 1 ELSE shard_index.last_shard
      new_index == [last_shard |-> new_last,
                    counts |-> SetCount(shard_index.counts, Str(shard_id),
                                        Len(new_data.vectors))]
  IN /\ call' = [op |-> "add", args |-> <<vector, meta>>]
     /\ IF Len(vector) # dim
        THEN /\ ret' = Raised("ValueError")
             /\ UNCHANGED <<shard_index, shards, index_json>>
        ELSE /\ shards' = SaveShard(shards, shard_id, new_data)
             /\ shard_index' = new_index
             /\ index_json' = SaveIndex(new_index)
             /\ ret' = Returned(None)
     /\ UNCHANGED <<max_shard_size, now>>

Add(vector, meta) ==
  LET shard_id == shard_index.last_shard
      shard_data == LoadShard(shards, shard_id)
      new_data == [vectors |-> Append(shard_data.vectors, vector),
                   metadata |-> Append(shard_data.metadata, meta)]
      file_size == FileSize(new_data)
      new_last == IF file_size >= max_shard_size
                  THEN shard_id + 1 ELSE shard_index.last_shard
      new_index == [last_shard |-> new_last,
                    counts |-> SetCount(shard_index.counts, Str(shard_id),
                                        Len(new_data.vectors))]
  IN /\ call' = [op |-> "add", args |-> <<vector, meta>>]
     /\ IF Len(vector) # dim
        THEN /\ ret' = Raised("ValueError")
             /\ UNCHANGED <<shard_index, shards, index_json>>
        ELSE /\ shards' = SaveShard(shards, shard_id, new_data)
             /\ shard_index' = new_index
             /\ index_json' = SaveIndex(new_index)
             /\ ret' = Returned(None)
     /\ UNCHANGED <<max_shard_size, now>>

(***************************************************************************)
(* delete                                                                  *)
(***************************************************************************)
\* delete without the test index < 0: del list[index] then counts a negative
\* index from the end of the list
Delete_NegativeIndex(shard_id, index) ==
  LET shard_data == LoadShard(shards, shard_id)
      n == Len(shard_data.vectors)
      pos == IF index < 0 THEN n + index + 1 ELSE index + 1
      new_data == [vectors |-> RemoveAt(shard_data.vectors, pos),
                   metadata |-> RemoveAt(shard_data.metadata, pos)]
      new_index == [last_shard |-> shard_index.last_shard,
                    counts |-> SetCount(shard_index.counts, Str(shard_id),
                                        Len(new_data.vectors))]
  IN /\ call' = [op |-> "delete", args |-> <<shard_id, index>>]
     /\ IF pos < 1 \/ pos > n
        THEN /\ ret' = Raised("IndexError")
             /\ UNCHANGED <<shard_index, shards, index_json>>
        ELSE /\ shards' = SaveShard(shards, shard_id, new_data)
             /\ shard_index' = new_index
             /\ index_json' = SaveIndex(new_index)
             /\ ret' = Returned(None)
     /\ UNCHANGED <<max_shard_size, now>>

\* delete that removes the vector at index but pops the last metadata
Delete_PopsMetadata(shard_id, index) ==
  LET shard_data == LoadShard(shards, shard_id)
      new_data == [vectors |-> RemoveAt(shard_data.vectors, index + 1),
                   metadata |-> RemoveAt(shard_data.metadata,
                                         Len(shard_data.metadata))]
      new_index == [last_shard |-> shard_index.last_shard,
                    counts |-> SetCount(shard_index.counts, Str(shard_id),
                                        Len(new_data.vectors))]
  IN /\ call' = [op |-> "delete", args |-> <<shard_id, index>>]
     /\ IF index < 0 \/ index >= Len(shard_data.vectors)
        THEN /\ ret' = Raised("IndexError")
             /\ UNCHANGED <<shard_index, shards, index_json>>
        ELSE /\ shards' = SaveShard(shards, shard_id, new_data)
             /\ shard_index' = new_index
             /\ index_json' = SaveIndex(new_index)
             /\ ret' = Returned(None)
     /\ UNCHANGED <<max_shard_size, now>>

\* delete that does not update counts
Delete_KeepsCount(shard_id, index) ==
  LET shard_data == LoadShard(shards, shard_id)
      new_data == [vectors |-> RemoveAt(shard_data.vectors, index + 1),
                   metadata |-> RemoveAt(shard_data.metadata, index + 1)]
  IN /\ call' = [op |-> "delete", args |-> <<shard_id, index>>]
     /\ IF index < 0 \/ index >= Len(shard_data.vectors)
        THEN /\ ret' = Raised("IndexError")
             /\ UNCHANGED <<shard_index, shards, index_json>>
        ELSE /\ shards' = SaveShard(shards, shard_id, new_data)
             /\ shard_index' = shard_index
             /\ index_json' = SaveIndex(shard_index)
             /\ ret' = Returned(None)
     /\ UNCHANGED <<max_shard_size, now>>

\* delete that makes the shard it shrank below the threshold the open shard
Delete_ReopensShard(shard_id, index) ==
  LET shard_data == LoadShard(shards, shard_id)
      new_data == [vectors |-> RemoveAt(shard_data.vectors, index + 1),
                   metadata |-> RemoveAt(shard_data.metadata, index + 1)]
      new_last == IF FileSize(new_data) < max_shard_size
                  THEN Min(shard_id, shard_index.last_shard)
                  ELSE shard_index.last_shard
      new_index == [last_shard |-> new_last,
                    counts |-> SetCount(shard_index.counts, Str(shard_id),
                                        Len(new_data.vectors))]
  IN /\ call' = [op |-> "delete", args |-> <<shard_id, index>>]
     /\ IF index < 0 \/ index >= Len(shard_data.vectors)
        THEN /\ ret' = Raised("IndexError")
             /\ UNCHANGED <<shard_index, shards, index_json>>
        ELSE /\ shards' = SaveShard(shards, shard_id, new_data)
             /\ shard_index' = new_index
             /\ index_json' = SaveIndex(new_index)
             /\ ret' = Returned(None)
     /\ UNCHANGED <<max_shard_size, now>>

Delete(shard_id, index) ==
  LET shard_data == LoadShard(shards, shard_id)
      new_data == [vectors |-> RemoveAt(shard_data.vectors, index + 1),
                   metadata |-> RemoveAt(shard_data.metadata, index + 1)]
      new_index == [last_shard |-> shard_index.last_shard,
                    counts |-> SetCount(shard_index.counts, Str(shard_id),
                                        Len(new_data.vectors))]
  IN /\ call' = [op |-> "delete", args |-> <<shard_id, index>>]
     /\ IF index < 0 \/ index >= Len(shard_data.vectors)
        THEN /\ ret' = Raised("IndexError")
             /\ UNCHANGED <<shard_index, shards, index_json>>
        ELSE /\ shards' = SaveShard(shards, shard_id, new_data)
             /\ shard_index' = new_index
             /\ index_json' = SaveIndex(new_index)
             /\ ret' = Returned(None)
     /\ UNCHANGED <<max_shard_size, now>>

(***************************************************************************)
(* delete_all                                                              *)
(***************************************************************************)
\* delete_all that iterates range(last_shard)
DeleteAll_SkipsOpenShard ==
  /\ call' = [op |-> "delete_all", args |-> <<>>]
  /\ shards' = [s \in DOMAIN shards \ (0..(shard_index.last_shard - 1)) |-> shards[s]]
  /\ index_json' = <<>>
  /\ shard_index' = ZeroIndex
  /\ ret' = Returned(None)
  /\ UNCHANGED <<max_shard_size, now>>

\* delete_all that resets the index and removes no shard file
DeleteAll_IndexOnly ==
  /\ call' = [op |-> "delete_all", args |-> <<>>]
  /\ shards' = shards
  /\ index_json' = <<>>
  /\ shard_index' = ZeroIndex
  /\ ret' = Returned(None)
  /\ UNCHANGED <<max_shard_size, now>>

DeleteAll ==
  /\ call' = [op |-> "delete_all", args |-> <<>>]
  /\ shards' = [s \in DOMAIN shards \ (0..shard_index.last_shard) |-> shards[s]]
  /\ index_json' = <<>>
  /\ shard_index' = ZeroIndex
  /\ ret' = Returned(None)
  /\ UNCHANGED <<max_shard_size, now>>

(***************************************************************************)
(* purge_expired                                                           *)
(***************************************************************************)
\* _is_expired that tests time.time() > expires_at
IsExpired_Strict(meta, t) ==
  LET expires_at == Get(meta, "expires_at")
  IN expires_at # None /\ t > expires_at[2]

\* _is_expired, with t the reading of time.time()
IsExpired(meta, t) ==
  LET expires_at == Get(meta, "expires_at")
  IN expires_at # None /\ t >= expires_at[2]

\* the shard as purge_expired leaves it at clock reading t
KeptShard(shard_data, t) ==
  LET keep == [i \in 1..Len(shard_data.vectors) |->
                 ~IsExpired(shard_data.metadata[i], t)]
  IN [vectors |-> SelectIdx(shard_data.vectors, keep, 1),
      metadata |-> SelectIdx(shard_data.metadata, keep, 1)]

\* the loop of purge_expired over shards shard_id .. last: the files, the
\* counts and purged_count it ends with
RECURSIVE PurgeFrom(_, _, _, _)
PurgeFrom(st, shard_id, last, t) ==
  IF shard_id > last THEN st
  ELSE LET shard_data == LoadShard(st.files, shard_id)
           kept == KeptShard(shard_data, t)
           n == Len(shard_data.vectors)
           m == Len(kept.vectors)
       IN IF n = 0
          THEN PurgeFrom(st, shard_id + 1, last, t)
          ELSE PurgeFrom(
                 [files |-> IF m # n THEN SaveShard(st.files, shard_id, kept)
                            ELSE st.files,
                  counts |-> SetCount(st.counts, Str(shard_id), m),
                  purged_count |-> st.purged_count + (n - m)],
                 shard_id + 1, last, t)

PurgeExpired ==
  LET st == PurgeFrom([files |-> shards, counts |-> shard_index.counts,
                       purged_count |-> 0],
                      0, shard_index.last_shard, now)
      new_index == [last_shard |-> shard_index.last_shard, counts |-> st.counts]
  IN /\ call' = [op |-> "purge_expired", args |-> <<>>]
     /\ shards' = st.files
     /\ shard_index' = new_index
     /\ index_json' = SaveIndex(new_index)
     /\ ret' = [error |-> "none", value |-> None,
                 stdout |-> <<"Purged", st.purged_count, "expired items.">>]
     /\ UNCHANGED <<max_shard_size, now>>

(***************************************************************************)
(* __init__ on the same directory, and the clock                           *)
(***************************************************************************)
Open ==
  /\ call' = [op |-> "open", args |-> <<>>]
  /\ shard_index' = LoadIndex
  /\ ret' = Returned(None)
  /\ UNCHANGED <<max_shard_size, shards, index_json, now>>

Tick ==
  /\ now < MaxTime
  /\ now' = now + 1
  /\ call' = [op |-> "tick", args |-> <<>>]
  /\ ret' = Returned(None)
  /\ UNCHANGED <<max_shard_size, shard_index, shards, index_json>>

(***************************************************************************)
(* Specification.                                                          *)
(***************************************************************************)
TotalEntries == Len(GetAllRows(shards, shard_index))

\* the threads that call the handle
Threads == {1, 2}

\* a thread that has not called yet
IdleThread ==
  [pc |-> "idle", op |-> "none", args |-> <<>>, shard_id |-> 0, last |-> 0,
   shard_data |-> EmptyShard, new_data |-> EmptyShard, purged_count |-> 0,
   ret |-> Returned(None)]

Init ==
  /\ max_shard_size \in ShardSizes
  /\ shard_index = ZeroIndex
  /\ shards = <<>>
  /\ index_json = <<>>
  /\ now = 0
  /\ call = [op |-> "open", args |-> <<>>]
  /\ ret = Returned(None)
  /\ threads = [t \in Threads |-> IdleThread]
  /\ log = <<>>

\* A query and a call that raises change only call and ret, so issued right
\* after one of them, a query or a call that raises reaches no state that it
\* does not reach when issued before it: these are explored after the other
\* calls only.
AfterQuery == call.op \in {"search", "get_all"} \/ ret.error # "none"

Next ==
  \/ \E in \in AddInputs :
       /\ TotalEntries < MaxEntries
       /\ shard_index.last_shard < MaxLastShard
       /\ Add(in.vector, in.meta)
       /\ UNCHANGED <<threads, log>>
  \/ \E in \in BadInputs :
       ~AfterQuery /\ Add(in.vector, in.meta) /\ UNCHANGED <<threads, log>>
  \/ ~AfterQuery /\ GetAll /\ UNCHANGED <<threads, log>>
  \/ \E query \in Queries, k \in 0..MaxK, filters \in Filters :
       /\ ~AfterQuery
       /\ Search(query, k, "cosine", filters)
       /\ UNCHANGED <<threads, log>>
  \/ \E query \in Queries, metric \in Metrics \ {"cosine"} :
       /\ ~AfterQuery
       /\ Search(query, MaxK, metric, NoFilters)
       /\ UNCHANGED <<threads, log>>
  \/ \E shard_id \in 0..MaxLastShard, index \in -1..(MaxEntries - 1) :
       /\ AfterQuery => (0 <= index /\ index < Len(LoadShard(shards, shard_id).vectors))
       /\ Delete(shard_id, index)
       /\ UNCHANGED <<threads, log>>
  \/ DeleteAll /\ UNCHANGED <<threads, log>>
  \/ PurgeExpired /\ UNCHANGED <<threads, log>>
  \/ Open /\ UNCHANGED <<threads, log>>
  \/ Tick /\ UNCHANGED <<threads, log>>

Spec == Init /\ [][Next]_vars

(***************************************************************************)
(* Two calls in flight on one handle: add and purge_expired line by line.  *)
(* Nothing in the class takes a lock, so a thread can be preempted between *)
(* any two of its reads and writes of the directory and of shard_index.    *)
(***************************************************************************)
Event(t, ev, shard_id, shard_data) ==
  [thread |-> t, event |-> ev, shard_id |-> shard_id, shard_data |-> shard_data]

\* add, lines 58-62: read last_shard, load that shard, check the dimension
AddLoad(t, vector, meta) ==
  LET shard_id == shard_index.last_shard
      shard_data == LoadShard(shards, shard_id)
  IN /\ threads[t].pc = "idle"
     /\ threads' = [threads EXCEPT ![t] =
          [@ EXCEPT !.pc = IF Len(vector) # dim THEN "done" ELSE "add_save",
                    !.op = "add",
                    !.args = <<vector, meta>>,
                    !.shard_id = shard_id,
                    !.shard_data = shard_data,
                    !.ret = IF Len(vector) # dim THEN Raised("ValueError")
                            ELSE Returned(None)]]
     /\ log' = Append(log, Event(t, "load", shard_id, shard_data))
     /\ UNCHANGED <<max_shard_size, shard_index, shards, index_json, now,
                    call, ret>>

\* add, lines 64-66 with _save_shard loading the file again and appending to
\* what it finds there
AddSave_Reload(t) ==
  LET th == threads[t]
      current == LoadShard(shards, th.shard_id)
      shard_data == [vectors |-> Append(current.vectors, th.args[1]),
                     metadata |-> Append(current.metadata, th.args[2])]
  IN /\ th.pc = "add_save"
     /\ shards' = SaveShard(shards, th.shard_id, shard_data)
     /\ threads' = [threads EXCEPT ![t] =
          [@ EXCEPT !.pc = "add_index", !.shard_data = shard_data]]
     /\ log' = Append(log, Event(t, "save", th.shard_id, shard_data))
     /\ UNCHANGED <<max_shard_size, shard_index, index_json, now, call, ret>>

\* add, lines 64-66: append to the loaded lists and write them as the shard
AddSave(t) ==
  LET th == threads[t]
      shard_data == [vectors |-> Append(th.shard_data.vectors, th.args[1]),
                     metadata |-> Append(th.shard_data.metadata, th.args[2])]
  IN /\ th.pc = "add_save"
     /\ shards' = SaveShard(shards, th.shard_id, shard_data)
     /\ threads' = [threads EXCEPT ![t] =
          [@ EXCEPT !.pc = "add_index", !.shard_data = shard_data]]
     /\ log' = Append(log, Event(t, "save", th.shard_id, shard_data))
     /\ UNCHANGED <<max_shard_size, shard_index, index_json, now, call, ret>>

\* add, lines 69-78: the size of the file as it is now, the rollover, the
\* count of the thread's own list, and index.json
AddIndex(t) ==
  LET th == threads[t]
      file_size == FileSize(LoadShard(shards, th.shard_id))
      new_last == IF file_size >= max_shard_size
                  THEN th.shard_id + 1 ELSE shard_index.last_shard
      new_index == [last_shard |-> new_last,
                    counts |-> SetCount(shard_index.counts, Str(th.shard_id),
                                        Len(th.shard_data.vectors))]
  IN /\ th.pc = "add_index"
     /\ shard_index' = new_index
     /\ index_json' = SaveIndex(new_index)
     /\ threads' = [threads EXCEPT ![t] = [@ EXCEPT !.pc = "done"]]
     /\ UNCHANGED <<max_shard_size, shards, now, call, ret, log>>

\* where the loop of purge_expired goes after shard shard_id
PurgeAfter(shard_id, last) ==
  IF shard_id + 1 > last THEN "purge_index" ELSE "purge_load"

\* purge_expired, lines 162-164: the range of the loop is fixed here
PurgeBegin(t) ==
  /\ threads[t].pc = "idle"
  /\ threads' = [threads EXCEPT ![t] =
       [@ EXCEPT !.pc = "purge_load", !.op = "purge_expired",
                 !.shard_id = 0, !.last = shard_index.last_shard,
                 !.purged_count = 0]]
  /\ UNCHANGED <<max_shard_size, shard_index, shards, index_json, now,
                 call, ret, log>>

\* purge_expired, lines 165-177: load one shard and keep what has not
\* expired (the clock is read once for the shard)
PurgeLoad(t) ==
  LET th == threads[t]
      shard_data == LoadShard(shards, th.shard_id)
      new_data == KeptShard(shard_data, now)
      n == Len(shard_data.vectors)
      m == Len(new_data.vectors)
  IN /\ th.pc = "purge_load"
     /\ threads' = [threads EXCEPT ![t] =
          IF n = 0
          THEN [@ EXCEPT !.pc = PurgeAfter(th.shard_id, th.last),
                         !.shard_id = th.shard_id + 1,
                         !.shard_data = EmptyShard,
                         !.new_data = EmptyShard]
          ELSE [@ EXCEPT !.pc = "purge_save",
                         !.shard_data = shard_data,
                         !.new_data = new_data,
                         !.purged_count = th.purged_count + (n - m)]]
     /\ log' = Append(log, Event(t, "load", th.shard_id, shard_data))
     /\ UNCHANGED <<max_shard_size, shard_index, shards, index_json, now,
                    call, ret>>

\* purge_expired, lines 179-184: write the shard if something expired, and
\* set its count in shard_index
PurgeSave(t) ==
  LET th == threads[t]
      n == Len(th.shard_data.vectors)
      m == Len(th.new_data.vectors)
  IN /\ th.pc = "purge_save"
     /\ IF m # n
        THEN /\ shards' = SaveShard(shards, th.shard_id, th.new_data)
             /\ log' = Append(log, Event(t, "save", th.shard_id, th.new_data))
        ELSE UNCHANGED <<shards, log>>
     /\ shard_index' = [shard_index EXCEPT
          !.counts = SetCount(shard_index.counts, Str(th.shard_id), m)]
     /\ threads' = [threads EXCEPT ![t] =
          [@ EXCEPT !.pc = PurgeAfter(th.shard_id, th.last),
                    !.shard_id = th.shard_id + 1,
                    !.shard_data = EmptyShard,
                    !.new_data = EmptyShard]]
     /\ UNCHANGED <<max_shard_size, index_json, now, call, ret>>

\* purge_expired, lines 186-187: index.json and the message
PurgeIndex(t) ==
  LET th == threads[t]
  IN /\ th.pc = "purge_index"
     /\ index_json' = SaveIndex(shard_index)
     /\ threads' = [threads EXCEPT ![t] =
          [@ EXCEPT !.pc = "done",
                    !.ret = [error |-> "none", value |-> None,
                             stdout |-> <<"Purged", th.purged_count,
                                          "expired items.">>]]]
     /\ UNCHANGED <<max_shard_size, shard_index, shards, now, call, ret, log>>

AllIdle == \A t \in Threads : threads[t].pc = "idle"
AllDone == \A t \in Threads : threads[t].pc = "done"

\* The handle is filled by add calls one after the other, then thread 1 calls
\* add and thread 2 calls add or purge_expired, and get_all is called once
\* both have returned.
ConcNext ==
  \/ \E in \in AddInputs :
       /\ AllIdle
       /\ TotalEntries < MaxEntries - 1
       /\ shard_index.last_shard < MaxLastShard
       /\ Add(in.vector, in.meta)
       /\ UNCHANGED <<threads, log>>
  \/ ~AllDone /\ Tick /\ UNCHANGED <<threads, log>>
  \/ \E t \in Threads, in \in AddInputs : AddLoad(t, in.vector, in.meta)
  \/ \E t \in Threads : AddSave(t)
  \/ \E t \in Threads : AddIndex(t)
  \/ PurgeBegin(2)
  \/ PurgeLoad(2)
  \/ PurgeSave(2)
  \/ PurgeIndex(2)
  \/ AllDone /\ call.op # "get_all" /\ GetAll /\ UNCHANGED <<threads, log>>

ConcSpec == Init /\ [][ConcNext]_vars

(***************************************************************************)
(* Properties.                                                             *)
(***************************************************************************)
\* C1: add with a vector whose length is not dim raises the dimension
\* error and changes nothing: the shard files, shard_index, index.json and
\* what get_all returns are as before the call.
C1_AddDimensionMismatch ==
  [][(call'.op = "add" /\ Len(call'.args[1]) # dim) =>
       /\ ret'.error = "ValueError"
       /\ shards' = shards
       /\ shard_index' = shard_index
       /\ index_json' = index_json
       /\ GetAllRows(shards', shard_index') = GetAllRows(shards, shard_index)]_vars

C1_Witness ==
  /\ call.op = "add"
  /\ Len(call.args[1]) # dim
  /\ ret.error = "ValueError"
  /\ TotalEntries >= 2
  /\ shard_index.last_shard >= 1

\* C2: a successful add(v, m) makes get_all return what it returned before
\* followed by one row with vector v and metadata m, at shard = last_shard at
\* the time of the call and index = the previous length of that shard; every
\* other shard file is as before.
C2_AddAppendsToOpenShard ==
  [][(call'.op = "add" /\ ret'.error = "none") =>
       LET shard_id == shard_index.last_shard
           row == [shard |-> shard_id,
                   index |-> Len(LoadShard(shards, shard_id).vectors),
                   vector |-> call'.args[1],
                   metadata |-> call'.args[2]]
       IN /\ GetAllRows(shards', shard_index')
               = Append(GetAllRows(shards, shard_index), row)
          /\ DOMAIN shards' = DOMAIN shards \cup {shard_id}
          /\ \A s \in DOMAIN shards \ {shard_id} : shards'[s] = shards[s]]_vars

C2_Witness ==
  /\ call.op = "add"
  /\ ret.error = "none"
  /\ shard_index.last_shard >= 1
  /\ Len(LoadShard(shards, shard_index.last_shard).vectors) = 1
  /\ Len(LoadShard(shards, 0).vectors) = 2

\* C6: after a successful add the file just written is the one of last_shard
\* at the time of the call; last_shard becomes that id + 1 when the size of
\* that file is >= max_shard_size and keeps its value when it is smaller.
C6_RolloverAfterWrite ==
  [][(call'.op = "add" /\ ret'.error = "none") =>
       LET shard_id == shard_index.last_shard
       IN /\ shard_id \in DOMAIN shards'
          /\ Len(shards'[shard_id].vectors)
               = Len(LoadShard(shards, shard_id).vectors) + 1
          /\ FileSize(shards'[shard_id]) >= max_shard_size
               => shard_index'.last_shard = shard_id + 1
          /\ FileSize(shards'[shard_id]) < max_shard_size
               => shard_index'.last_shard = shard_id]_vars

C6_Witness ==
  /\ call.op = "add"
  /\ ret.error = "none"
  /\ shard_index.last_shard = 1
  /\ 0 \in DOMAIN shards
  /\ FileSize(shards[0]) = max_shard_size
  /\ Len(shards[0].vectors) = 2
  /\ 1 \notin DOMAIN shards

\* the filter as the specification states it: every key of the filter is
\* present in the metadata with the expected value
Matches(meta, filters) ==
  \A key \in DOMAIN filters : key \in DOMAIN meta /\ meta[key] = filters[key]

\* x >= y on scores
GreaterEq(x, y) == ~IsNaN(x) /\ ~IsNaN(y) /\ ~Less(x, y)

\* results is a choice of the entries with the largest scores among the rows
\* at the positions matching, in descending order of score
IsTopK(results, rows, matching, query) ==
  /\ \A i, j \in 1..Len(results) : i < j => GreaterEq(results[i][1], results[j][1])
  /\ \E f \in [1..Len(results) -> matching] :
       /\ \A i, j \in 1..Len(results) : i # j => f[i] # f[j]
       /\ \A i \in 1..Len(results) :
            /\ results[i][1] = Cosine(rows[f[i]].vector, query)
            /\ results[i][2] = rows[f[i]].metadata
       /\ \A m \in matching \ {f[i] : i \in 1..Len(results)} :
            \A i \in 1..Len(results) :
              GreaterEq(results[i][1], Cosine(rows[m].vector, query))

\* C3: a cosine search returns, in descending order of score, the entries
\* with the k largest cosine scores among all stored entries that match the
\* filter; the result has min(k, number of matching entries) elements.
C3_SearchTopK ==
  (call.op = "search" /\ call.args[3] = "cosine") =>
    LET query == call.args[1]
        k == call.args[2]
        filters == call.args[4]
        rows == GetAllRows(shards, shard_index)
        matching == {i \in 1..Len(rows) : Matches(rows[i].metadata, filters)}
    IN /\ ret.error = "none"
       /\ Len(ret.value) = Min(k, Cardinality(matching))
       /\ IsTopK(ret.value, rows, matching, query)

\* C4: every entry a search returns has, for every key of the filter, that
\* key present in its metadata with the expected value.
C4_FilterMatch ==
  (call.op = "search" /\ ret.error = "none") =>
    \A i \in 1..Len(ret.value) : Matches(ret.value[i][2], call.args[4])

\* C5: every element of a search result is a tuple (score, metadata,
\* shard_id, shard_local_index), and the shard shard_id holds that metadata
\* at position shard_local_index.
C5_ResultLocatesEntry ==
  (call.op = "search" /\ ret.error = "none") =>
    \A i \in 1..Len(ret.value) :
      LET r == ret.value[i]
      IN /\ Len(r) = 4
         /\ r[3] \in DOMAIN shards
         /\ r[4] + 1 \in 1..Len(shards[r[3]].metadata)
         /\ shards[r[3]].metadata[r[4] + 1] = r[2]

\* the entries of a shard, vector and metadata paired
Entries(shard_data) ==
  [i \in 1..Len(shard_data.vectors) |->
     <<shard_data.vectors[i], shard_data.metadata[i]>>]

\* the metadata has an expires_at field (a time) with t >= expires_at
ExpiredAt(meta, t) ==
  /\ "expires_at" \in DOMAIN meta
  /\ meta["expires_at"][1] = "num"
  /\ t >= meta["expires_at"][2]

\* the entries of s that are not expired at t, in the order of s
RECURSIVE Unexpired(_, _)
Unexpired(s, t) ==
  IF s = <<>> THEN <<>>
  ELSE (IF ExpiredAt(Head(s)[2], t) THEN <<>> ELSE <<Head(s)>>)
         \o Unexpired(Tail(s), t)

\* C7: purge_expired at time now leaves, in every shard 0..last_shard,
\* exactly the entries that have no expires_at or expires_at > now, with
\* vector and metadata unchanged and in their previous order.
C7_PurgeRemovesExpired ==
  [][call'.op = "purge_expired" =>
       \A s \in 0..shard_index.last_shard :
         /\ Entries(LoadShard(shards', s)) = Unexpired(Entries(LoadShard(shards, s)), now)
         /\ \A i \in 1..Len(LoadShard(shards', s).metadata) :
              ~ExpiredAt(LoadShard(shards', s).metadata[i], now)]_vars

C7_Witness ==
  /\ call.op = "purge_expired"
  /\ ret.stdout[2] = 1
  /\ DOMAIN shards = {0}
  /\ Len(shards[0].vectors) = 2
  /\ shards[0].vectors[1] # shards[0].vectors[2]

\* C8: purge_expired returns the number of entries it removed: the number
\* of entries before the call minus the number after it.
C8_PurgeReturnsCount ==
  [][call'.op = "purge_expired" =>
       ret'.value = PyNum(Len(GetAllRows(shards, shard_index))
                            - Len(GetAllRows(shards', shard_index')))]_vars

\* C9: delete_all succeeds from every state, also right after a delete_all;
\* after it get_all is empty, no shard file and no index.json exists,
\* shard_index is the zero-value index and so is the index a new handle loads.
C9_DeleteAllResets ==
  call.op = "delete_all" =>
    /\ ret.error = "none"
    /\ GetAllRows(shards, shard_index) = <<>>
    /\ DOMAIN shards = {}
    /\ index_json = <<>>
    /\ shard_index = ZeroIndex
    /\ LoadIndex = ZeroIndex
    /\ ENABLED (/\ DeleteAll
                /\ ret'.error = "none"
                /\ shards' = <<>>
                /\ index_json' = <<>>
                /\ shard_index' = ZeroIndex)

C9_Witness ==
  /\ call.op = "delete_all"
  /\ ret.error = "none"
  /\ DOMAIN shards = {}
  /\ index_json = <<>>

\* C10: delete(shard_id, index) with index < 0 or index >= the length of
\* that shard (0 when it has no file) raises the index error and leaves the
\* shard files, shard_index and index.json as they were.
C10_DeleteOutOfRange ==
  [][(/\ call'.op = "delete"
      /\ \/ call'.args[2] < 0
         \/ call'.args[2] >= Len(LoadShard(shards, call'.args[1]).vectors)) =>
       /\ ret'.error = "IndexError"
       /\ shards' = shards
       /\ shard_index' = shard_index
       /\ index_json' = index_json]_vars

C10_Witness ==
  /\ call.op = "delete"
  /\ ret.error = "IndexError"
  /\ call.args[2] = -1
  /\ Len(LoadShard(shards, call.args[1]).vectors) >= 2

\* C11: a successful delete(s, i) removes the entry at position i of shard s
\* from the vectors and from the metadata: the entries before i keep their
\* position, the entries after i move down by one, unchanged; every other
\* shard file and last_shard are as before.
C11_DeleteRemovesOne ==
  [][(call'.op = "delete" /\ ret'.error = "none") =>
       LET s == call'.args[1]
           i == call'.args[2]
           old == LoadShard(shards, s)
           new == LoadShard(shards', s)
       IN /\ Len(new.vectors) = Len(old.vectors) - 1
          /\ Len(new.metadata) = Len(old.metadata) - 1
          /\ \A j \in 0..(Len(old.vectors) - 1) :
               /\ j < i => /\ new.vectors[j + 1] = old.vectors[j + 1]
                           /\ new.metadata[j + 1] = old.metadata[j + 1]
               /\ j > i => /\ new.vectors[j] = old.vectors[j + 1]
                           /\ new.metadata[j] = old.metadata[j + 1]
          /\ DOMAIN shards' = DOMAIN shards
          /\ \A t \in DOMAIN shards \ {s} : shards'[t] = shards[t]
          /\ shard_index'.last_shard = shard_index.last_shard]_vars

C11_Witness ==
  /\ call.op = "delete"
  /\ ret.error = "none"
  /\ call.args[2] = 1
  /\ Len(LoadShard(shards, call.args[1]).vectors) = 2
  /\ LoadShard(shards, call.args[1]).metadata[1]
       # LoadShard(shards, call.args[1]).metadata[2]

\* C12: every shard id that has an entry in counts has as its count the
\* number of entries stored in that shard, every shard that holds an entry
\* has an entry in counts, and the counts add up to len(get_all()).
C12_CountsMatchShards ==
  /\ \A key \in DOMAIN shard_index.counts :
       shard_index.counts[key] = Len(LoadShard(shards, key[2]).vectors)
  /\ \A s \in DOMAIN shards :
       Len(shards[s].vectors) >= 1 => Str(s) \in DOMAIN shard_index.counts
  /\ \A key \in DOMAIN shard_index.counts :
       key[1] = "str" /\ key[2] \in 0..shard_index.last_shard
  /\ SumSeq([n \in 1..(shard_index.last_shard + 1) |->
               IF Str(n - 1) \in DOMAIN shard_index.counts
               THEN shard_index.counts[Str(n - 1)] ELSE 0])
       = Len(GetAllRows(shards, shard_index))

C12_Witness ==
  /\ call.op = "delete"
  /\ ret.error = "none"
  /\ Cardinality(DOMAIN shard_index.counts) >= 2
  /\ shard_index.counts[Str(call.args[1])] = 0
  /\ TotalEntries >= 1

\* the squared Euclidean distance, which orders vectors as the distance does
SquaredL2(u, v) == SumSeq([i \in 1..Len(u) |-> (u[i] - v[i]) * (u[i] - v[i])])

\* C13 as stated: search(q, k, "l2") returns a result, not an error: the k
\* stored entries nearest to q in Euclidean distance, in ascending order of
\* distance.
C13_L2ReturnsNearest ==
  (call.op = "search" /\ call.args[3] = "l2") =>
    LET query == call.args[1]
        k == call.args[2]
        rows == GetAllRows(shards, shard_index)
        results == ret.value
    IN /\ ret.error = "none"
       /\ Len(results) = Min(k, Len(rows))
       /\ \E f \in [1..Len(results) -> 1..Len(rows)] :
            /\ \A i, j \in 1..Len(results) : i # j => f[i] # f[j]
            /\ \A i \in 1..Len(results) : results[i][2] = rows[f[i]].metadata
            /\ \A i, j \in 1..Len(results) : i < j =>
                 SquaredL2(rows[f[i]].vector, query)
                   <= SquaredL2(rows[f[j]].vector, query)
            /\ \A m \in 1..Len(rows) \ {f[i] : i \in 1..Len(results)} :
                 \A i \in 1..Len(results) :
                   SquaredL2(rows[f[i]].vector, query)
                     <= SquaredL2(rows[m].vector, query)

\* C13 amended: search with metric "l2" (any metric other than "cosine")
\* raises ValueError, returns no result and leaves the store as it was.
C13_L2Unsupported ==
  [][(call'.op = "search" /\ call'.args[3] # "cosine") =>
       /\ ret'.error = "ValueError"
       /\ ret'.value = None
       /\ shards' = shards
       /\ shard_index' = shard_index
       /\ index_json' = index_json]_vars

C13_Witness ==
  /\ call.op = "search"
  /\ call.args[3] = "l2"
  /\ ret.error = "ValueError"
  /\ TotalEntries >= 2

\* x = y on scores: False whenever one of them is nan
ScoreEq(x, y) == ~IsNaN(x) /\ ~IsNaN(y) /\ x = y

\* row a comes before row b in the order (shard id, index)
RowBefore(a, b) == a.shard < b.shard \/ (a.shard = b.shard /\ a.index < b.index)

\* C14: in a cosine search the returned entries of equal score are in the
\* order shard id ascending, then index ascending, and an entry left out by
\* the truncation to k that passes the filter and ties with a returned entry
\* comes after it in that order.
C14_TieOrder ==
  (call.op = "search" /\ ret.error = "none") =>
    LET query == call.args[1]
        filters == call.args[4]
        rows == GetAllRows(shards, shard_index)
        results == ret.value
        score(m) == Cosine(rows[m].vector, query)
    IN \E f \in [1..Len(results) -> 1..Len(rows)] :
         /\ \A i, j \in 1..Len(results) : i # j => f[i] # f[j]
         /\ \A i \in 1..Len(results) :
              /\ results[i][1] = score(f[i])
              /\ results[i][2] = rows[f[i]].metadata
         /\ \A i, j \in 1..Len(results) :
              (i < j /\ ScoreEq(results[i][1], results[j][1]))
                => RowBefore(rows[f[i]], rows[f[j]])
         /\ \A m \in 1..Len(rows) \ {f[i] : i \in 1..Len(results)} :
              \A i \in 1..Len(results) :
                (Matches(rows[m].metadata, filters) /\ ScoreEq(score(m), results[i][1]))
                  => RowBefore(rows[f[i]], rows[m])

\* C16: after purge_expired, every shard id in 0..last_shard has a count,
\* equal to the length purge_expired left the shard with (0 for a shard that
\* is empty or has no file).
C16_PurgeRefreshesCounts ==
  [][call'.op = "purge_expired" =>
       \A s \in 0..shard_index.last_shard :
         /\ Str(s) \in DOMAIN shard_index'.counts
         /\ shard_index'.counts[Str(s)] = Len(LoadShard(shards', s).vectors)]_vars

\* C17: after every call, completed or failed, the index a new handle loads
\* from the directory is the index of the handle in memory (the zero-value
\* index when index.json is missing).
C17_IndexPersisted == LoadIndex = shard_index

C17_Witness ==
  /\ call.op = "purge_expired"
  /\ index_json # <<>>
  /\ Cardinality(DOMAIN shard_index.counts) >= 2
  /\ shard_index.last_shard >= 1
  /\ \E key \in DOMAIN shard_index.counts : shard_index.counts[key] = 0

\* the stored entries whatever their shard id: the rows of every shard file
RECURSIVE AllFileRows(_, _)
AllFileRows(files, ids) ==
  IF ids = {} THEN {}
  ELSE LET s == CHOOSE x \in ids : TRUE
       IN {ShardRows(files, s)[i] : i \in 1..Len(files[s].vectors)}
            \cup AllFileRows(files, ids \ {s})

\* C18: no shard file has an id above last_shard, so get_all returns every
\* stored entry, and after delete_all no shard file is left.
C18_NoShardBeyondLast ==
  /\ \A s \in DOMAIN shards : s <= shard_index.last_shard
  /\ AllFileRows(shards, DOMAIN shards)
       = {GetAllRows(shards, shard_index)[i] :
            i \in 1..Len(GetAllRows(shards, shard_index))}
  /\ call.op = "delete_all" => DOMAIN shards = {}

C18_Witness ==
  /\ call.op = "get_all"
  /\ shard_index.last_shard = 2
  /\ DOMAIN shards = {0, 1}
  /\ Len(ret.value) = 2

\* the entries get_all returns, in its order, without their position
FlatEntries(files, idx) ==
  [i \in 1..Len(GetAllRows(files, idx)) |->
     <<GetAllRows(files, idx)[i].vector, GetAllRows(files, idx)[i].metadata>>]

\* C19: get_all lists the rows by ascending shard id, then ascending index,
\* and that order is insertion order: add puts the new entry last, delete
\* and purge_expired take entries out and leave the others in their order,
\* and no other call changes what get_all returns.
C19_GetAllInsertionOrder ==
  [][LET old == FlatEntries(shards, shard_index)
         new == FlatEntries(shards', shard_index')
     IN /\ call'.op = "get_all" =>
             \A i, j \in 1..Len(ret'.value) :
               i < j => RowBefore(ret'.value[i], ret'.value[j])
        /\ \/ /\ call'.op = "add"
              /\ ret'.error = "none"
              /\ new = Append(old, <<call'.args[1], call'.args[2]>>)
           \/ /\ call'.op = "delete"
              /\ ret'.error = "none"
              /\ \E p \in 1..Len(old) : new = RemoveAt(old, p)
           \/ /\ call'.op = "purge_expired"
              /\ new = Unexpired(old, now)
           \/ /\ call'.op = "delete_all"
              /\ new = <<>>
           \/ /\ ~(call'.op \in {"add", "delete"} /\ ret'.error = "none")
              /\ new = old]_vars

C19_Witness ==
  /\ call.op = "get_all"
  /\ Len(ret.value) = 3
  /\ ret.value[1].shard = 0
  /\ ret.value[3].shard = 1
  /\ ret.value[1].vector # ret.value[2].vector
  /\ ret.value[2].vector # ret.value[3].vector

\* C20: last_shard only moves forward between resets: delete, purge_expired,
\* search and get_all leave it as it is, add leaves it or adds 1 to it, and
\* only delete_all lowers it, to 0.
C20_LastShardForward ==
  [][/\ call'.op \in {"delete", "purge_expired", "search", "get_all"} =>
          shard_index'.last_shard = shard_index.last_shard
     /\ call'.op = "add" =>
          shard_index'.last_shard \in
            {shard_index.last_shard, shard_index.last_shard + 1}
     /\ shard_index'.last_shard < shard_index.last_shard =>
          (call'.op = "delete_all" /\ shard_index'.last_shard = 0)]_vars

C20_Witness ==
  /\ call.op = "delete"
  /\ ret.error = "none"
  /\ call.args[1] < shard_index.last_shard
  /\ FileSize(LoadShard(shards, call.args[1])) < max_shard_size

\* the position in log of the event of thread t on shard s, 0 when it has none
LogPos(t, ev, s) ==
  LET ps == {p \in 1..Len(log) : /\ log[p].thread = t
                                 /\ log[p].event = ev
                                 /\ log[p].shard_id = s}
  IN IF ps = {} THEN 0 ELSE CHOOSE p \in ps : TRUE

\* both threads loaded shard s before either of them saved it
Raced(s) ==
  /\ \A t \in Threads : LogPos(t, "load", s) > 0 /\ LogPos(t, "save", s) > 0
  /\ \A t, u \in Threads : LogPos(t, "load", s) < LogPos(u, "save", s)

\* C15: when thread 1's add and thread 2's add or purge_expired both load
\* the open shard before either saves it, both return without an error and
\* the shard, and get_all afterwards, hold the version of the thread that
\* saved last, made from what was loaded: the loaded entries and the later
\* add's entry, or the loaded entries a later purge_expired kept.  The
\* appended entry of the thread that saved first is not there.
C15_LostUpdate ==
  (call.op = "get_all" /\ AllDone /\ Raced(threads[1].shard_id)) =>
    LET s == threads[1].shard_id
        base == log[LogPos(1, "load", s)].shard_data
        later == IF LogPos(1, "save", s) > LogPos(2, "save", s) THEN 1 ELSE 2
        rows == SelectSeq(ret.value, LAMBDA r : r.shard = s)
    IN /\ \A t \in Threads : threads[t].ret.error = "none"
       /\ log[LogPos(2, "load", s)].shard_data = base
       /\ LoadShard(shards, s) = log[LogPos(later, "save", s)].shard_data
       /\ [i \in 1..Len(rows) |-> rows[i].vector] = LoadShard(shards, s).vectors
       /\ [i \in 1..Len(rows) |-> rows[i].metadata] = LoadShard(shards, s).metadata
       /\ IF threads[later].op = "add"
          THEN /\ LoadShard(shards, s).vectors
                    = Append(base.vectors, threads[later].args[1])
               /\ LoadShard(shards, s).metadata
                    = Append(base.metadata, threads[later].args[2])
          ELSE /\ \E t \in 0..MaxTime : LoadShard(shards, s) = KeptShard(base, t)
               /\ Len(LoadShard(shards, s).vectors) < Len(base.vectors)

C15_Witness ==
  /\ call.op = "get_all"
  /\ AllDone
  /\ Raced(threads[1].shard_id)
  /\ threads[2].op = "add"
  /\ threads[1].args # threads[2].args
  /\ LogPos(1, "save", threads[1].shard_id) < LogPos(2, "save", threads[1].shard_id)
  /\ Len(log[LogPos(1, "load", threads[1].shard_id)].shard_data.vectors) >= 1

C15_WitnessPurge ==
  /\ call.op = "get_all"
  /\ AllDone
  /\ Raced(threads[1].shard_id)
  /\ threads[2].op = "purge_expired"
  /\ LogPos(1, "save", threads[1].shard_id) < LogPos(2, "save", threads[1].shard_id)

====
